---- MODULE Spec2Model ----
(***************************************************************************)
(* dapr-ext-litestar: the actor HTTP adapter (actor.py) and the pub/sub    *)
(* subscription registry (app.py).                                         *)
(*                                                                         *)
(* Python values are modelled by closed, uniformly shaped records:         *)
(*   Optional[str]  [some, val]            None is [some |-> FALSE]        *)
(*   str/bytes/dict [kind, text, obj]      kind in "str", "bytes", "dict"  *)
(*   exception      [type, args, detail]                                   *)
(*   Response       [content, status_code, media_type]                     *)
(* A dict is a TLA+ record (a function from its keys), so the presence or  *)
(* absence of a key is DOMAIN membership.                                  *)
(***************************************************************************)
EXTENDS Integers, Sequences, FiniteSets, TLC

VARIABLES
    subscriptions,  \* DaprApp._subscriptions
    routes,         \* POST routes registered on the wrapped app, in order
    regLog,         \* the arguments of every completed registration, in order
    pc,             \* per request: where its handler coroutine stands
    req,            \* per request: the inbound HTTP request
    calls,          \* per request: the ActorRuntime calls the handler made
    rets,           \* per request: how each awaited operation completed
    out,            \* per request: what the handler returned or raised
    wArgs,          \* the arguments of a direct _wrap_response call
    wResp           \* the value that call returned (a sequence of 0 or 1)

vars == <<subscriptions, routes, regLog, pc, req, calls, rets, out, wArgs, wResp>>

appVars == <<subscriptions, routes, regLog>>
actorVars == <<pc, req, calls, rets, out>>
wrapVars == <<wArgs, wResp>>

----------------------------------------------------------------------------
(* Bounds of the model. *)

MaxRequests == 2
MaxSubs == 3

----------------------------------------------------------------------------
(* Python values. *)

None == [some |-> FALSE, val |-> ""]
Some(s) == [some |-> TRUE, val |-> s]

\* Python truthiness of an Optional[str]: None and "" are both falsy.
Truthy(opt) == opt.some /\ opt.val # ""

NoObj == [k \in {} |-> ""]
Str(s) == [kind |-> "str", text |-> s, obj |-> NoObj]
Bytes(b) == [kind |-> "bytes", text |-> b, obj |-> NoObj]
Dict(d) == [kind |-> "dict", text |-> "", obj |-> d]

Unset == [set |-> FALSE, code |-> 0]
Status(n) == [set |-> TRUE, code |-> n]

HTTP_200_OK == 200
HTTP_202_ACCEPTED == 202
HTTP_500_INTERNAL_SERVER_ERROR == 500

DEFAULT_CONTENT_TYPE == "application/json; utf-8"
DAPR_REENTRANCY_ID_HEADER == "Dapr-Reentrancy-Id"
ERROR_CODE_UNKNOWN == "UNKNOWN"

\* litestar.Response(content=..., status_code=..., media_type=...)
Response(content, status_code, media_type) ==
    [content |-> content, status_code |-> status_code, media_type |-> media_type]

----------------------------------------------------------------------------
(* actor.py: _wrap_response *)

\* Faulty variant of wrap_str: the status range is not consulted.
wrap_str_any_status(status_code, msg, error_code) ==
    LET response_obj == [message |-> msg.text]
    IN  IF Truthy(error_code)
        THEN Response(Dict(response_obj @@ [errorCode |-> error_code.val]),
                      Status(status_code), None)
        ELSE Response(Dict(response_obj), Status(status_code), None)

wrap_str(status_code, msg, error_code) ==
    LET response_obj == [message |-> msg.text]
    IN  IF ~(status_code >= 200 /\ status_code < 300) /\ Truthy(error_code)
        THEN Response(Dict(response_obj @@ [errorCode |-> error_code.val]),
                      Status(status_code), None)
        ELSE Response(Dict(response_obj), Status(status_code), None)

_wrap_response(status_code, msg, error_code, content_type) ==
    IF msg.kind = "str"
    THEN wrap_str(status_code, msg, error_code)
    ELSE IF msg.kind = "bytes"
         THEN Response(msg, Unset, content_type)
         ELSE Response(msg, Status(status_code), None)

----------------------------------------------------------------------------
(* app.py: DaprApp *)

\* The arguments of one subscribe(...)(func) registration.
Pubsubs == {"p"}
Topics == {"t", "u"}
Metadatas == {NoObj, [rawPayload |-> "true"]}
Routes == {None, Some("/custom")}
DeadLetterTopics == {None, Some("dlq"), Some("")}

SubscribeArgs ==
    [pubsub : Pubsubs, topic : Topics, metadata : Metadatas,
     route : Routes, dead_letter_topic : DeadLetterTopics]

\* Faulty variant of event_handler_route: an explicit route is ignored.
event_handler_route_default_only(pubsub, topic, route) ==
    "/events/" \o pubsub \o "/" \o topic

\* f"/events/{pubsub}/{topic}" if route is None else route
event_handler_route(pubsub, topic, route) ==
    IF ~route.some THEN "/events/" \o pubsub \o "/" \o topic ELSE route.val

\* Faulty variant of subscription: the key is always written, empty for None.
subscription_null_dead_letter(pubsub, topic, metadata, route, dead_letter_topic) ==
    [pubsubname |-> pubsub,
     topic |-> topic,
     route |-> IF ~route.some THEN "/events/" \o pubsub \o "/" \o topic
               ELSE route.val,
     metadata |-> metadata,
     deadLetterTopic |-> dead_letter_topic.val]

\* The dict literal appended to self._subscriptions.
subscription(pubsub, topic, metadata, route, dead_letter_topic) ==
    [pubsubname |-> pubsub,
     topic |-> topic,
     route |-> event_handler_route(pubsub, topic, route),
     metadata |-> metadata]
    @@ (IF dead_letter_topic.some
        THEN [deadLetterTopic |-> dead_letter_topic.val]
        ELSE NoObj)

\* Faulty variant of append_subscription: the record goes to the front.
prepend_subscription(subs, record) == <<record>> \o subs

\* self._subscriptions.append(record)
append_subscription(subs, record) == Append(subs, record)

\* subscribe(...)(func), the router accepting the route: the POST route is
\* registered first, then the record is appended.
Subscribe(a) ==
    /\ Len(regLog) < MaxSubs
    /\ LET event_route == event_handler_route(a.pubsub, a.topic, a.route)
       IN  routes' = Append(routes, event_route)
    /\ subscriptions' =
           append_subscription(subscriptions,
               subscription(a.pubsub, a.topic, a.metadata, a.route,
                            a.dead_letter_topic))
    /\ regLog' = Append(regLog, a)
    /\ UNCHANGED <<actorVars, wrapVars>>

\* subscribe(...)(func), self._app.register raising (the router is an external
\* collaborator; whether it refuses a route it already holds is its own
\* affair): the exception leaves the decorator before the append.
SubscribeRejected(a) ==
    /\ Len(regLog) < MaxSubs
    /\ event_handler_route(a.pubsub, a.topic, a.route)
           \in {routes[i] : i \in 1..Len(routes)}
    /\ UNCHANGED vars

\* DaprApp._get_subscriptions
_get_subscriptions == subscriptions

----------------------------------------------------------------------------
(* Exceptions. *)

Exc(type, args, detail) == [type |-> type, args |-> args, detail |-> detail]
NoExc == Exc("", <<>>, NoObj)

\* BaseException.__repr__: the type name around the repr of the arguments.
repr(ex) ==
    IF ex.args = <<>>
    THEN ex.type \o "()"
    ELSE ex.type \o "('" \o ex.args[1] \o "')"

\* BaseException.__str__, the textual description of an error: the argument
\* itself, "" when there is none. The handlers do not take it.
str(ex) == IF ex.args = <<>> THEN "" ELSE ex.args[1]

\* isinstance(ex, DaprInternalError)
IsDaprInternalError(ex) == ex.type = "DaprInternalError"

\* DaprInternalError.as_dict(): the error's structured detail.
as_dict(ex) == ex.detail

DaprErrors ==
    {Exc("DaprInternalError", <<"internal">>, [foo |-> "bar"]),
     Exc("DaprInternalError", <<"no actor">>,
         [message |-> "no actor", errorCode |-> "ERR_ACTOR"])}

OtherErrors == {Exc("Exception", <<"boom">>, NoObj), Exc("ValueError", <<>>, NoObj)}

Errors == DaprErrors \cup OtherErrors

----------------------------------------------------------------------------
(* actor.py: the route handlers of DaprActor.init_routes *)

Endpoints ==
    {"healthz", "dapr_config", "actor_deactivation", "actor_method",
     "actor_timer", "actor_reminder"}

PutEndpoints == {"actor_method", "actor_timer", "actor_reminder"}
ActorEndpoints == PutEndpoints \cup {"actor_deactivation"}

NoHeaders == NoObj
ReentrancyHeaders(id) == (DAPR_REENTRANCY_ID_HEADER :> id)

Request(endpoint, actor_type_name, actor_id, name, body, headers) ==
    [endpoint |-> endpoint, actor_type_name |-> actor_type_name,
     actor_id |-> actor_id, name |-> name, body |-> body, headers |-> headers]

NoRequest == Request("", "", "", "", "", NoHeaders)

\* The inbound requests the model draws from.
Inbound ==
    {Request("healthz", "", "", "", "", NoHeaders),
     Request("dapr_config", "", "", "", "", NoHeaders),
     Request("actor_deactivation", "foo", "1", "", "", NoHeaders),
     Request("actor_method", "foo", "1", "greet", "ping", NoHeaders),
     Request("actor_method", "foo", "1", "greet", "ping", ReentrancyHeaders("rid-1")),
     Request("actor_method", "bar", "2", "reset", "", ReentrancyHeaders("rid-2")),
     Request("actor_timer", "foo", "1", "tick", "due", NoHeaders),
     Request("actor_reminder", "foo", "1", "wake", "", NoHeaders)}

\* request.headers.get(name)
headers_get(headers, name) ==
    IF name \in DOMAIN headers THEN Some(headers[name]) ELSE None

NoneValue == [kind |-> "none", text |-> "", obj |-> NoObj]

\* One call into ActorRuntime, with its positional arguments.
Call(op, actor_type, actor_id, name, body, reentrancy_id) ==
    [op |-> op, actor_type |-> actor_type, actor_id |-> actor_id,
     name |-> name, body |-> body, reentrancy_id |-> reentrancy_id]

\* The completion of an awaited operation: a value, or an exception.
Ok(of, value) == [of |-> of, ok |-> TRUE, value |-> value, exc |-> NoExc]
Fail(of, ex) == [of |-> of, ok |-> FALSE, value |-> NoneValue, exc |-> ex]

\* What a handler coroutine ends with: a Response, or an escaping exception.
NoResponse == Response(NoneValue, Unset, None)
Returned(resp) == [kind |-> "returned", response |-> resp, exc |-> NoExc]
Raised(ex) == [kind |-> "raised", response |-> NoResponse, exc |-> ex]

\* Faulty variant of except_clauses: str(ex) where the code takes repr(ex).
except_clauses_str(ex) ==
    IF IsDaprInternalError(ex)
    THEN _wrap_response(HTTP_500_INTERNAL_SERVER_ERROR, Dict(as_dict(ex)),
                        None, DEFAULT_CONTENT_TYPE)
    ELSE _wrap_response(HTTP_500_INTERNAL_SERVER_ERROR, Str(str(ex)),
                        Some(ERROR_CODE_UNKNOWN), DEFAULT_CONTENT_TYPE)

\* Faulty variant of except_clauses: "except Exception" comes first and takes
\* the DaprInternalError too.
except_clauses_exception_first(ex) ==
    _wrap_response(HTTP_500_INTERNAL_SERVER_ERROR, Str(repr(ex)),
                   Some(ERROR_CODE_UNKNOWN), DEFAULT_CONTENT_TYPE)

\* The two except clauses every actor handler carries.
except_clauses(ex) ==
    IF IsDaprInternalError(ex)
    THEN _wrap_response(HTTP_500_INTERNAL_SERVER_ERROR, Dict(as_dict(ex)),
                        None, DEFAULT_CONTENT_TYPE)
    ELSE _wrap_response(HTTP_500_INTERNAL_SERVER_ERROR, Str(repr(ex)),
                        Some(ERROR_CODE_UNKNOWN), DEFAULT_CONTENT_TYPE)

\* healthz returns the dict itself.
healthz_result == Returned(Response(Dict([status |-> "ok"]), Unset, None))

\* dapr_config has no try block: a failure leaves the handler.
dapr_config_result(ret) ==
    IF ret.ok
    THEN Returned(_wrap_response(HTTP_200_OK, ret.value, None, DEFAULT_CONTENT_TYPE))
    ELSE Raised(ret.exc)

actor_deactivation_call(q) ==
    Call("deactivate", q.actor_type_name, q.actor_id, "", NoneValue, None)

\* Faulty variant of actor_deactivation_result: no try block.
actor_deactivation_no_try(q, ret) ==
    IF ~ret.ok
    THEN Raised(ret.exc)
    ELSE LET msg == "deactivated actor: " \o q.actor_type_name \o "." \o q.actor_id
         IN  Returned(_wrap_response(HTTP_202_ACCEPTED, Str(msg), None,
                                     DEFAULT_CONTENT_TYPE))

actor_deactivation_result(q, ret) ==
    IF ~ret.ok
    THEN Returned(except_clauses(ret.exc))
    ELSE LET msg == "deactivated actor: " \o q.actor_type_name \o "." \o q.actor_id
         IN  Returned(_wrap_response(HTTP_202_ACCEPTED, Str(msg), None,
                                     DEFAULT_CONTENT_TYPE))

\* Faulty variant of actor_method_call: the reentrancy id is not forwarded.
actor_method_call_no_reentrancy(q, req_body) ==
    Call("dispatch", q.actor_type_name, q.actor_id, q.name, req_body, None)

actor_method_call(q, req_body) ==
    LET reentrancy_id == headers_get(q.headers, DAPR_REENTRANCY_ID_HEADER)
    IN  Call("dispatch", q.actor_type_name, q.actor_id, q.name, req_body,
             reentrancy_id)

actor_method_result(q, ret) ==
    IF ~ret.ok
    THEN Returned(except_clauses(ret.exc))
    ELSE Returned(_wrap_response(HTTP_200_OK, ret.value, None, DEFAULT_CONTENT_TYPE))

actor_timer_call(q, req_body) ==
    Call("fire_timer", q.actor_type_name, q.actor_id, q.name, req_body, None)

actor_timer_result(q, ret) ==
    IF ~ret.ok
    THEN Returned(except_clauses(ret.exc))
    ELSE LET msg == "called timer. actor: " \o q.actor_type_name \o "."
                    \o q.actor_id \o ", timer: " \o q.name
         IN  Returned(_wrap_response(HTTP_200_OK, Str(msg), None,
                                     DEFAULT_CONTENT_TYPE))

actor_reminder_call(q, req_body) ==
    Call("fire_reminder", q.actor_type_name, q.actor_id, q.name, req_body, None)

\* Faulty variant of actor_reminder_result: a failure is swallowed.
actor_reminder_result_swallow(q, ret) ==
    LET msg == "called reminder. actor: " \o q.actor_type_name \o "."
               \o q.actor_id \o ", reminder: " \o q.name
    IN  Returned(_wrap_response(HTTP_200_OK, Str(msg), None, DEFAULT_CONTENT_TYPE))

actor_reminder_result(q, ret) ==
    IF ~ret.ok
    THEN Returned(except_clauses(ret.exc))
    ELSE LET msg == "called reminder. actor: " \o q.actor_type_name \o "."
                    \o q.actor_id \o ", reminder: " \o q.name
         IN  Returned(_wrap_response(HTTP_200_OK, Str(msg), None,
                                     DEFAULT_CONTENT_TYPE))

put_call(q, req_body) ==
    CASE q.endpoint = "actor_method" -> actor_method_call(q, req_body)
      [] q.endpoint = "actor_timer" -> actor_timer_call(q, req_body)
      [] q.endpoint = "actor_reminder" -> actor_reminder_call(q, req_body)

handler_result(q, ret) ==
    CASE q.endpoint = "actor_deactivation" -> actor_deactivation_result(q, ret)
      [] q.endpoint = "actor_method" -> actor_method_result(q, ret)
      [] q.endpoint = "actor_timer" -> actor_timer_result(q, ret)
      [] q.endpoint = "actor_reminder" -> actor_reminder_result(q, ret)

\* The status the framework sends: the Response's own, else the handler's
\* (202 on the delete decorator, 200 for get and put).
handler_status_code(endpoint) ==
    IF endpoint = "actor_deactivation" THEN HTTP_202_ACCEPTED ELSE HTTP_200_OK

http_status(endpoint, resp) ==
    IF resp.status_code.set THEN resp.status_code.code
    ELSE handler_status_code(endpoint)

----------------------------------------------------------------------------
(* The requests in flight. Each handler is a coroutine: it is suspended    *)
(* while the body is read and while the ActorRuntime call runs, and other  *)
(* requests' steps interleave there.                                       *)

Requests == 1..MaxRequests

\* What ActorRuntime.dispatch may return, and the serialized actor config.
DispatchResults == {Bytes("pong"), Bytes("")}
SerializedConfig == Bytes("{entities:[foo]}")

Finish(r, ret) ==
    /\ rets' = [rets EXCEPT ![r] = Append(@, ret)]
    /\ out' = [out EXCEPT ![r] = Append(@, handler_result(req[r], ret))]
    /\ pc' = [pc EXCEPT ![r] = "done"]

\* GET /healthz
Healthz(r) ==
    /\ pc[r] = "idle"
    /\ \E q \in Inbound :
        /\ q.endpoint = "healthz"
        /\ req' = [req EXCEPT ![r] = q]
    /\ out' = [out EXCEPT ![r] = Append(@, healthz_result)]
    /\ pc' = [pc EXCEPT ![r] = "done"]
    /\ UNCHANGED <<calls, rets, appVars, wrapVars>>

\* GET /dapr/config: get_actor_config and serialize run without suspension.
DaprConfig(r) ==
    /\ pc[r] = "idle"
    /\ \E q \in Inbound :
        /\ q.endpoint = "dapr_config"
        /\ req' = [req EXCEPT ![r] = q]
    /\ calls' = [calls EXCEPT ![r] =
                    Append(@, Call("get_actor_config", "", "", "", NoneValue, None))]
    /\ \E ret \in {Ok("config", SerializedConfig)}
                     \cup {Fail("config", ex) : ex \in Errors} :
        /\ rets' = [rets EXCEPT ![r] = Append(@, ret)]
        /\ out' = [out EXCEPT ![r] = Append(@, dapr_config_result(ret))]
    /\ pc' = [pc EXCEPT ![r] = "done"]
    /\ UNCHANGED <<appVars, wrapVars>>

\* DELETE /actors/{type}/{id}: the handler calls ActorRuntime.deactivate.
ActorDeactivation(r) ==
    /\ pc[r] = "idle"
    /\ \E q \in Inbound :
        /\ q.endpoint = "actor_deactivation"
        /\ req' = [req EXCEPT ![r] = q]
        /\ calls' = [calls EXCEPT ![r] = Append(@, actor_deactivation_call(q))]
    /\ pc' = [pc EXCEPT ![r] = "awaiting"]
    /\ UNCHANGED <<rets, out, appVars, wrapVars>>

\* PUT .../method/...: the handler starts by awaiting request.body().
PutReceive(r) ==
    /\ pc[r] = "idle"
    /\ \E q \in Inbound :
        /\ q.endpoint \in PutEndpoints
        /\ req' = [req EXCEPT ![r] = q]
    /\ pc' = [pc EXCEPT ![r] = "reading"]
    /\ UNCHANGED <<calls, rets, out, appVars, wrapVars>>

\* request.body() returns the raw bytes; the handler calls ActorRuntime.
BodyRead(r) ==
    /\ pc[r] = "reading"
    /\ LET req_body == Bytes(req[r].body)
       IN  /\ rets' = [rets EXCEPT ![r] = Append(@, Ok("body", req_body))]
           /\ calls' = [calls EXCEPT ![r] = Append(@, put_call(req[r], req_body))]
    /\ pc' = [pc EXCEPT ![r] = "awaiting"]
    /\ UNCHANGED <<req, out, appVars, wrapVars>>

\* request.body() raises (the client went away, the stream was consumed).
BodyReadFails(r) ==
    /\ pc[r] = "reading"
    /\ \E ex \in OtherErrors : Finish(r, Fail("body", ex))
    /\ UNCHANGED <<req, calls, appVars, wrapVars>>

\* The awaited ActorRuntime call returns.
FacadeReturns(r) ==
    /\ pc[r] = "awaiting"
    /\ \E value \in (IF req[r].endpoint = "actor_method"
                     THEN DispatchResults ELSE {NoneValue}) :
        Finish(r, Ok("facade", value))
    /\ UNCHANGED <<req, calls, appVars, wrapVars>>

\* The awaited ActorRuntime call raises.
FacadeRaises(r) ==
    /\ pc[r] = "awaiting"
    /\ \E ex \in Errors : Finish(r, Fail("facade", ex))
    /\ UNCHANGED <<req, calls, appVars, wrapVars>>

HandlerStep(r) ==
    \/ Healthz(r)
    \/ DaprConfig(r)
    \/ ActorDeactivation(r)
    \/ PutReceive(r)
    \/ BodyRead(r)
    \/ BodyReadFails(r)
    \/ FacadeReturns(r)
    \/ FacadeRaises(r)

----------------------------------------------------------------------------
(* Specifications. *)

NoWrapArgs ==
    [status_code |-> HTTP_200_OK, msg |-> NoneValue, error_code |-> None,
     content_type |-> None]

ActorIdle ==
    /\ pc = [r \in Requests |-> "idle"]
    /\ req = [r \in Requests |-> NoRequest]
    /\ calls = [r \in Requests |-> <<>>]
    /\ rets = [r \in Requests |-> <<>>]
    /\ out = [r \in Requests |-> <<>>]

WrapIdle ==
    /\ wArgs = NoWrapArgs
    /\ wResp = <<>>

\* The registry as a sequence of completed registrations leaves it.
Registered(log) ==
    /\ regLog = log
    /\ subscriptions =
           [i \in 1..Len(log) |->
               subscription(log[i].pubsub, log[i].topic, log[i].metadata,
                            log[i].route, log[i].dead_letter_topic)]
    /\ routes =
           [i \in 1..Len(log) |->
               event_handler_route(log[i].pubsub, log[i].topic, log[i].route)]

\* The registrations made while the application module was imported, before
\* the server takes requests.
StartupRegistrations ==
    {<<>>,
     <<[pubsub |-> "p", topic |-> "t", metadata |-> NoObj, route |-> None,
        dead_letter_topic |-> Some("dlq")]>>}

\* The actor adapter serving requests.
Init ==
    /\ \E log \in StartupRegistrations : Registered(log)
    /\ ActorIdle
    /\ WrapIdle

Next == \E r \in Requests : HandlerStep(r)

Spec == Init /\ [][Next]_vars

\* The registry while handlers are being registered.
InitApp ==
    /\ Registered(<<>>)
    /\ ActorIdle
    /\ WrapIdle

NextApp == \E a \in SubscribeArgs : Subscribe(a) \/ SubscribeRejected(a)

SpecApp == InitApp /\ [][NextApp]_vars

\* _wrap_response called directly, on arguments of every kind.
StatusCodes == {199, 200, 202, 299, 300, 404, 500}
Msgs == {Str(""), Str("ok"), Str("boom"), Bytes("raw"), Dict([foo |-> "bar"])}
ErrorCodes == {None, Some(""), Some("UNKNOWN"), Some("E1")}
ContentTypes == {Some(DEFAULT_CONTENT_TYPE), Some("text/plain")}

InitWrap ==
    /\ Registered(<<>>)
    /\ ActorIdle
    /\ wArgs \in [status_code : StatusCodes, msg : Msgs,
                  error_code : ErrorCodes, content_type : ContentTypes]
    /\ wResp = <<>>

WrapCall ==
    /\ wResp = <<>>
    /\ wResp' = <<_wrap_response(wArgs.status_code, wArgs.msg,
                                 wArgs.error_code, wArgs.content_type)>>
    /\ UNCHANGED <<wArgs, appVars, actorVars>>

NextWrap == WrapCall

SpecWrap == InitWrap /\ [][NextWrap]_vars

----------------------------------------------------------------------------
(* Properties of the actor adapter (under Spec). *)

Last(seq) == seq[Len(seq)]

\* Request r ended on one of the four actor endpoints after an awaited
\* operation (the body read or the ActorRuntime call) raised.
FailedActorRequest(r) ==
    /\ pc[r] = "done"
    /\ req[r].endpoint \in ActorEndpoints
    /\ rets[r] # <<>>
    /\ ~Last(rets[r]).ok

Failure(r) == Last(rets[r]).exc

\* The handler of r returned exactly one Response, with this status and body.
Responded(r, status, content) ==
    /\ Len(out[r]) = 1
    /\ out[r][1].kind = "returned"
    /\ http_status(req[r].endpoint, out[r][1].response) = status
    /\ out[r][1].response.content = content

\* C1, as stated: an error that is not a DaprInternalError, with description
\* d, ends the request with status 500 and the body
\* {message: d, errorCode: "UNKNOWN"}.
UnknownErrorMessageIsDescription ==
    \A r \in Requests :
        (FailedActorRequest(r) /\ ~IsDaprInternalError(Failure(r)))
            => Responded(r, 500,
                   Dict([message |-> str(Failure(r)), errorCode |-> "UNKNOWN"]))

\* C1, amended: an error that is not a DaprInternalError ends the request
\* with status 500 and the body {message: repr(ex), errorCode: "UNKNOWN"}:
\* the message is the error's repr, "Exception('boom')" for Exception("boom")
\* and "ValueError()" for an error without arguments.
UnknownErrorMessageIsRepr ==
    \A r \in Requests :
        (FailedActorRequest(r) /\ ~IsDaprInternalError(Failure(r)))
            => /\ Failure(r).type = "Exception" /\ Failure(r).args = <<"boom">>
                    => Responded(r, 500,
                           Dict([message |-> "Exception('boom')",
                                 errorCode |-> "UNKNOWN"]))
               /\ Failure(r).type = "ValueError" /\ Failure(r).args = <<>>
                    => Responded(r, 500,
                           Dict([message |-> "ValueError()",
                                 errorCode |-> "UNKNOWN"]))
               /\ Responded(r, 500,
                      Dict([message |-> Failure(r).type \o "("
                                \o (IF Failure(r).args = <<>> THEN ""
                                    ELSE "'" \o Failure(r).args[1] \o "'")
                                \o ")",
                            errorCode |-> "UNKNOWN"]))

UnknownErrorWitness ==
    \E r \in Requests :
        /\ FailedActorRequest(r)
        /\ req[r].endpoint = "actor_method"
        /\ Last(rets[r]).of = "facade"
        /\ Failure(r) = Exc("Exception", <<"boom">>, NoObj)
        /\ out[r][1].response.content.obj.message = "Exception('boom')"

\* C2: a DaprInternalError whose as_dict() is D ends the request with status
\* 500 and the body D itself: no message envelope, no errorCode added.
DaprInternalErrorBodyIsDetail ==
    \A r \in Requests :
        (FailedActorRequest(r) /\ IsDaprInternalError(Failure(r)))
            => /\ Responded(r, 500, Dict(Failure(r).detail))
               /\ DOMAIN out[r][1].response.content.obj = DOMAIN Failure(r).detail

DaprInternalErrorWitness ==
    \E r \in Requests :
        /\ FailedActorRequest(r)
        /\ req[r].endpoint = "actor_timer"
        /\ IsDaprInternalError(Failure(r))
        /\ Failure(r).detail = [foo |-> "bar"]
        /\ out[r][1].response.content = Dict([foo |-> "bar"])
        /\ out[r][1].response.status_code = Status(500)

\* Request r ended after the operation behind its endpoint failed.
FailedRequest(r) ==
    /\ pc[r] = "done"
    /\ rets[r] # <<>>
    /\ ~Last(rets[r]).ok

\* The encoder's 500 for an error: its detail for a DaprInternalError, the
\* UNKNOWN envelope otherwise.
MappedTo500(r) ==
    /\ Len(out[r]) = 1
    /\ out[r][1].kind = "returned"
    /\ http_status(req[r].endpoint, out[r][1].response) = 500
    /\ IF IsDaprInternalError(Failure(r))
       THEN out[r][1].response.content = Dict(Failure(r).detail)
       ELSE /\ out[r][1].response.content.kind = "dict"
            /\ DOMAIN out[r][1].response.content.obj = {"message", "errorCode"}
            /\ out[r][1].response.content.obj.errorCode = "UNKNOWN"

\* C3, as stated: on all five non-health endpoints, GET /dapr/config among
\* them, a failure of the operation behind the endpoint is returned by the
\* handler as a 500 built by the encoder; none leaves the handler unmapped.
ErrorPolicyUniformOverFive ==
    \A r \in Requests :
        (FailedRequest(r) /\ req[r].endpoint \in ActorEndpoints \cup {"dapr_config"})
            => MappedTo500(r)

\* C3, amended: the policy covers the four actor endpoints (deactivate,
\* method, timer, reminder): there a failure is returned as a 500 built by
\* the encoder. GET /dapr/config has no error mapping: a failure of the
\* config retrieval leaves the handler as the exception itself.
ErrorPolicyUniformOverFour ==
    \A r \in Requests :
        FailedRequest(r)
            => /\ req[r].endpoint \in ActorEndpoints => MappedTo500(r)
               /\ req[r].endpoint = "dapr_config"
                    => /\ Len(out[r]) = 1
                       /\ out[r][1].kind = "raised"
                       /\ out[r][1].exc = Failure(r)
                       /\ out[r][1].response = NoResponse

ErrorPolicyWitness ==
    \E r1, r2 \in Requests :
        /\ FailedRequest(r1) /\ req[r1].endpoint = "dapr_config"
        /\ out[r1][1].kind = "raised"
        /\ FailedRequest(r2) /\ req[r2].endpoint = "actor_deactivation"
        /\ out[r2][1].kind = "returned"
        /\ out[r2][1].response.status_code = Status(500)

\* C8: a method invocation for (T, I, M) with body B and reentrancy header R
\* calls ActorRuntime.dispatch with exactly (T, I, M, B, R), R unchanged and
\* None without the header; on success the response has status 200 and the
\* bytes dispatch returned as its body.
DispatchArgumentsAndResultVerbatim ==
    \A r \in Requests :
        req[r].endpoint = "actor_method"
            => /\ (pc[r] \in {"idle", "reading"} \/ ~rets[r][1].ok) => calls[r] = <<>>
               /\ (pc[r] \in {"awaiting", "done"} /\ rets[r][1].ok)
                    => /\ Len(calls[r]) = 1
                       /\ calls[r][1].op = "dispatch"
                       /\ calls[r][1].actor_type = req[r].actor_type_name
                       /\ calls[r][1].actor_id = req[r].actor_id
                       /\ calls[r][1].name = req[r].name
                       /\ calls[r][1].body = Bytes(req[r].body)
                       /\ calls[r][1].reentrancy_id =
                              (IF "Dapr-Reentrancy-Id" \in DOMAIN req[r].headers
                               THEN Some(req[r].headers["Dapr-Reentrancy-Id"])
                               ELSE None)
               /\ (pc[r] = "done" /\ Last(rets[r]).ok)
                    => /\ Last(rets[r]).of = "facade"
                       /\ Last(rets[r]).value.kind = "bytes"
                       /\ Responded(r, 200, Last(rets[r]).value)

DispatchWitness ==
    \E r \in Requests :
        /\ pc[r] = "done"
        /\ req[r].endpoint = "actor_method"
        /\ calls[r] = <<Call("dispatch", "foo", "1", "greet", Bytes("ping"),
                             Some("rid-1"))>>
        /\ Last(rets[r]) = Ok("facade", Bytes("pong"))
        /\ out[r][1].response.content = Bytes("pong")

\* The success status and body of an actor endpoint.
SuccessStatus(q) == IF q.endpoint = "actor_deactivation" THEN 202 ELSE 200

LooksSuccessful(r) ==
    /\ Len(out[r]) = 1
    /\ out[r][1].kind = "returned"
    /\ http_status(req[r].endpoint, out[r][1].response) = SuccessStatus(req[r])

\* The ActorRuntime call of r was made and completed without raising.
FacadeCompleted(r) ==
    /\ Len(calls[r]) = 1
    /\ \E i \in 1..Len(rets[r]) : rets[r][i].of = "facade" /\ rets[r][i].ok

OneAttemptState ==
    \A r \in Requests :
        /\ Len(calls[r]) <= 1
        /\ Len(out[r]) <= 1
        /\ (pc[r] = "done") <=> (Len(out[r]) = 1)
        /\ Cardinality({i \in 1..Len(rets[r]) : rets[r][i].of = "facade"}) <= 1
        /\ (pc[r] = "done" /\ req[r].endpoint \in ActorEndpoints)
              => /\ LooksSuccessful(r) => FacadeCompleted(r)
                 /\ ~Last(rets[r]).ok
                      => /\ out[r][1].kind = "returned"
                         /\ http_status(req[r].endpoint, out[r][1].response) = 500

OneAttemptStep ==
    /\ subscriptions' = subscriptions
    /\ routes' = routes
    /\ \A r \in Requests :
        /\ pc[r] = "done" => (pc'[r] = "done" /\ out'[r] = out[r]
                                /\ calls'[r] = calls[r] /\ rets'[r] = rets[r])
        /\ Len(calls'[r]) >= Len(calls[r])
        /\ Len(out'[r]) >= Len(out[r])

\* C10: under any interleaving of requests, a handler of the deactivate,
\* method, timer or reminder endpoint calls ActorRuntime at most once, ends
\* with exactly one response, answers with the success status only if that
\* one call completed without raising, ends a failed request with a 500, and
\* no step of request handling changes the subscription list.
OneAttemptPerRequest == []OneAttemptState /\ [][OneAttemptStep]_vars

OneAttemptWitness ==
    \E r1, r2 \in Requests :
        /\ r1 # r2
        /\ pc[r1] = "done" /\ pc[r2] = "done"
        /\ req[r1].endpoint = "actor_reminder" /\ req[r2].endpoint = "actor_timer"
        /\ Len(calls[r1]) = 1 /\ Len(calls[r2]) = 1
        /\ ~Last(rets[r1]).ok /\ Last(rets[r1]).of = "facade"
        /\ out[r1][1].response.status_code = Status(500)
        /\ Last(rets[r2]).ok
        /\ out[r2][1].response.status_code = Status(200)
        /\ subscriptions # <<>>

----------------------------------------------------------------------------
(* Properties of _wrap_response (under SpecWrap). *)

InRange2xx(n) == n >= 200 /\ n < 300

\* The call was made on a textual payload.
WrappedText ==
    /\ wResp # <<>>
    /\ wArgs.msg.kind = "str"

TextEnvelope ==
    /\ wResp[1].content.kind = "dict"
    /\ "message" \in DOMAIN wResp[1].content.obj
    /\ wResp[1].content.obj.message = wArgs.msg.text
    /\ DOMAIN wResp[1].content.obj \subseteq {"message", "errorCode"}
    /\ wResp[1].status_code = Status(wArgs.status_code)

\* C4, as stated: for a textual payload m, status s and error code c the body
\* is {message: m} with status s, and it holds errorCode = c exactly when s is
\* outside [200,300) and c is supplied.
WrapTextErrorCodeIffSupplied ==
    WrappedText
        => /\ TextEnvelope
           /\ ("errorCode" \in DOMAIN wResp[1].content.obj)
                 <=> (~InRange2xx(wArgs.status_code) /\ wArgs.error_code.some)
           /\ "errorCode" \in DOMAIN wResp[1].content.obj
                 => wResp[1].content.obj.errorCode = wArgs.error_code.val

\* C4, amended: for a textual payload m, status s and error code c the body is
\* {message: m} with status s, and it holds errorCode = c exactly when s is
\* outside [200,300) and c is supplied and not the empty string; for s in
\* [200,300) errorCode is omitted even if c is supplied.
WrapTextErrorCodeIffNonEmpty ==
    WrappedText
        => /\ TextEnvelope
           /\ ("errorCode" \in DOMAIN wResp[1].content.obj)
                 <=> (~InRange2xx(wArgs.status_code)
                      /\ wArgs.error_code.some /\ wArgs.error_code.val # "")
           /\ "errorCode" \in DOMAIN wResp[1].content.obj
                 => wResp[1].content.obj.errorCode = wArgs.error_code.val
           /\ InRange2xx(wArgs.status_code)
                 => wResp[1].content.obj = [message |-> wArgs.msg.text]

WrapTextErrorWitness ==
    /\ WrappedText
    /\ wArgs.status_code = 300
    /\ wArgs.error_code = Some("E1")
    /\ wResp[1].content.obj = [message |-> "boom", errorCode |-> "E1"]

----------------------------------------------------------------------------
(* Properties of the subscription registry (under SpecApp). *)

\* Record i of the list is the one registration i made.
RecordOfRegistration(i) ==
    /\ _get_subscriptions[i].pubsubname = regLog[i].pubsub
    /\ _get_subscriptions[i].topic = regLog[i].topic
    /\ _get_subscriptions[i].metadata = regLog[i].metadata

OneRecordPerRegistration ==
    /\ Len(_get_subscriptions) = Len(regLog)
    /\ \A i \in 1..Len(regLog) : RecordOfRegistration(i)

AppendOnly ==
    subscriptions' # subscriptions
        => /\ Len(subscriptions') = Len(subscriptions) + 1
           /\ \A i \in 1..Len(subscriptions) : subscriptions'[i] = subscriptions[i]
           /\ regLog' = Append(regLog, Last(regLog'))
           /\ Last(subscriptions').pubsubname = Last(regLog').pubsub
           /\ Last(subscriptions').topic = Last(regLog').topic

\* C5: after any sequence of registrations _get_subscriptions returns one
\* record per registration, in registration order; a registration appends one
\* record at the end and leaves every earlier record and its place unchanged.
SubscriptionsInRegistrationOrder ==
    []OneRecordPerRegistration /\ [][AppendOnly]_vars

SubscriptionsOrderWitness ==
    /\ Len(_get_subscriptions) = 3
    /\ _get_subscriptions[1].topic = "u"
    /\ _get_subscriptions[2].topic = "t"
    /\ _get_subscriptions[3].topic = "u"
    /\ _get_subscriptions[1].route = "/events/p/u"
    /\ _get_subscriptions[2].route = "/custom"
    /\ _get_subscriptions[3].route = "/events/p/u"
    /\ "deadLetterTopic" \in DOMAIN _get_subscriptions[3]
    /\ "deadLetterTopic" \notin DOMAIN _get_subscriptions[1]

\* C6: the record of a registration with pubsub p and topic t has the route
\* "/events/p/t" when no route is given and the given route otherwise, and
\* the POST endpoint is registered at that same route.
RouteOfRegistration ==
    /\ Len(routes) = Len(subscriptions)
    /\ Len(regLog) = Len(subscriptions)
    /\ \A i \in 1..Len(subscriptions) :
        /\ routes[i] = subscriptions[i].route
        /\ regLog[i].route.some => subscriptions[i].route = regLog[i].route.val
        /\ ~regLog[i].route.some
              => subscriptions[i].route =
                     "/events/" \o regLog[i].pubsub \o "/" \o regLog[i].topic
        /\ (regLog[i].pubsub = "p" /\ regLog[i].topic = "t" /\ regLog[i].route = None)
              => subscriptions[i].route = "/events/p/t"
        /\ regLog[i].route = Some("/custom") => subscriptions[i].route = "/custom"

RouteWitness ==
    \E i, j \in 1..Len(subscriptions) :
        /\ regLog[i].route = None /\ regLog[i].topic = "t"
        /\ subscriptions[i].route = "/events/p/t" /\ routes[i] = "/events/p/t"
        /\ regLog[j].route = Some("/custom") /\ regLog[j].topic = "t"
        /\ subscriptions[j].route = "/custom" /\ routes[j] = "/custom"

\* C7: the record holds the key deadLetterTopic, with the given value, exactly
\* when a dead-letter topic was supplied; without one the key is absent, not
\* present with a null value.
DeadLetterTopicKeyIffSupplied ==
    /\ Len(regLog) = Len(subscriptions)
    /\ \A i \in 1..Len(subscriptions) :
        /\ ("deadLetterTopic" \in DOMAIN subscriptions[i])
              <=> regLog[i].dead_letter_topic.some
        /\ regLog[i].dead_letter_topic.some
              => subscriptions[i].deadLetterTopic = regLog[i].dead_letter_topic.val
        /\ ~regLog[i].dead_letter_topic.some
              => DOMAIN subscriptions[i] = {"pubsubname", "topic", "route", "metadata"}

DeadLetterTopicWitness ==
    \E i, j, k \in 1..Len(subscriptions) :
        /\ regLog[i].dead_letter_topic = Some("dlq")
        /\ subscriptions[i].deadLetterTopic = "dlq"
        /\ regLog[j].dead_letter_topic = None
        /\ "deadLetterTopic" \notin DOMAIN subscriptions[j]
        /\ regLog[k].dead_letter_topic = Some("")
        /\ subscriptions[k].deadLetterTopic = ""

\* C9: subscription routes are unique: no two records of the list have the
\* same route.
SubscriptionRoutesUnique ==
    \A i, j \in 1..Len(subscriptions) :
        i # j => subscriptions[i].route # subscriptions[j].route

====
